---- MODULE Spec2Model ----
(***************************************************************************)
(* Model of speech_to_text.py: the hotkey handlers of SpeechToTextApp, the *)
(* recording toggle, the session threads (_stream_and_type in streaming    *)
(* mode, _record_and_type in batch mode), SpeechRecognizer's audio loops   *)
(* and TextTyper's incremental typing.                                     *)
(*                                                                         *)
(* The input thread (pynput listener) runs _on_press / _on_release; each   *)
(* session runs on its own threading.Thread.  The attributes of the one    *)
(* SpeechRecognizer and the one TextTyper are shared by every thread.      *)
(***************************************************************************)
EXTENDS Naturals, Integers, Sequences, FiniteSets, TLC

\* ---- bounds ------------------------------------------------------------
MaxSessions == 2        \* session threads started in one run
MaxWords    == 1        \* frames carrying speech, runs of Spec
SerialWords == 4        \* frames carrying speech, runs of SerialSpec
MaxFaults   == 1        \* calls the environment makes fail in one run
SerialSessions == 1     \* session threads started, runs of SerialSpec

Sessions == 1..MaxSessions

\* ---- hotkey configuration --------------------------------------------------
\* str.lower() on the names the configurations below use.
Lower(str) ==
    CASE str = "Ctrl" -> "ctrl"
      [] str = "Shift" -> "shift"
      [] str = "Enter" -> "enter"
      [] str = "A" -> "a"
      [] str = "F5" -> "f5"
      [] OTHER -> str

\* parse_hotkey's modifier_map; a pynput key is written by its name.
ModifierMap ==
    [m \in {"ctrl", "control", "alt", "shift", "super", "meta", "cmd"} |->
        CASE m \in {"ctrl", "control"} -> "ctrl"
          [] m = "alt" -> "alt"
          [] m = "shift" -> "shift"
          [] OTHER -> "cmd"]

\* parse_hotkey's special_keys
SpecialKeys ==
    [k \in {"space", "enter", "tab", "escape", "esc"} |->
        IF k \in {"escape", "esc"} THEN "esc" ELSE k]

\* The function keys pynput's keyboard.Key has as attributes (f1 to f20).
FunctionKeys ==
    {"f1", "f2", "f3", "f4", "f5", "f6", "f7", "f8", "f9", "f10",
     "f11", "f12", "f13", "f14", "f15", "f16", "f17", "f18", "f19", "f20"}

Digits == {"0", "1", "2", "3", "4", "5", "6", "7", "8", "9"}

\* str.isdigit()
IsDigit(str) ==
    /\ Len(str) > 0
    /\ \A i \in 1..Len(str) : SubSeq(str, i, i) \in Digits

\* key_lower.startswith('f') and key_lower[1:].isdigit()
LooksLikeFunctionKey(k) ==
    /\ Len(k) >= 1
    /\ SubSeq(k, 1, 1) = "f"
    /\ IsDigit(SubSeq(k, 2, Len(k)))

\* The "hotkey" entry of a configuration: the configuration has none, or
\* the entry gives a list of modifier names and a key name.
NoHotkey == [modifiers |-> <<>>, key |-> "", given |-> FALSE]
HotkeyConfig(mods, key) == [modifiers |-> mods, key |-> key, given |-> TRUE]

\* parse_hotkey, lines 80-83: the modifiers the map knows.
ModifierKeys(mods) ==
    {ModifierMap[Lower(mods[i])] :
        i \in {j \in 1..Len(mods) : Lower(mods[j]) \in DOMAIN ModifierMap}}

\* parse_hotkey, lines 86-104: the main key.
MainKey(key) ==
    IF Lower(key) \in DOMAIN SpecialKeys THEN {SpecialKeys[Lower(key)]}
    ELSE IF Len(key) = 1 THEN {Lower(key)}
    ELSE IF LooksLikeFunctionKey(Lower(key)) /\ Lower(key) \in FunctionKeys
         THEN {Lower(key)}
         ELSE {}

\* parse_hotkey(hotkey_config)
ParseHotkey(hc) ==
    IF ~hc.given THEN {"ctrl", "shift", "space"}
    ELSE ModifierKeys(hc.modifiers) \cup MainKey(hc.key)

\* ---- keyboard ------------------------------------------------------------
\* Keys the listener can report; "x" is a key outside the combo.
Keys == {"ctrl", "space", "x"}

\* The "hotkey" entry of the configuration the sessions run with.
SessionHotkeyConfig == HotkeyConfig(<<"ctrl">>, "space")

\* Config.get_hotkey() for that configuration.
Hotkey == ParseHotkey(SessionHotkeyConfig)

\* ---- audio and the recognition engine ------------------------------------
\* What the speaker says: every utterance of a run follows one of these
\* phrases, word by word, one word per audio frame.
Phrases == << <<"turn", " on", " the", " lights">>, <<"a", "b">> >>

PhraseIds == 1..Len(Phrases)

\* A frame read from the audio stream: the next word of phrase p (p = 0: no
\* speech), and whether it holds the trailing silence that makes the
\* recognizer detect the end of the utterance.
WordFrame(p, end) == [p |-> p, end |-> end]
SilenceFrame == [p |-> 0, end |-> FALSE]
EndFrame     == [p |-> 0, end |-> TRUE]

HasWord(f) == f.p # 0

\* A fresh vosk.KaldiRecognizer: no utterance in progress.
FreshRecognizer == [p |-> 0, n |-> 0]

RECURSIVE Concat(_)
Concat(ws) == IF ws = <<>> THEN "" ELSE Head(ws) \o Concat(Tail(ws))

\* The recognizer's hypothesis for the utterance in progress.
Hypothesis(r) == IF r.n = 0 THEN "" ELSE Concat(SubSeq(Phrases[r.p], 1, r.n))

\* The word a word frame carries, given the utterance in progress.
WordOf(r, f) == Phrases[f.p][r.n + 1]

\* Frames the microphone can deliver next, given the recognizer's utterance:
\* silence and end-of-utterance at any time, the next word of the phrase
\* while the speaker has words left.
CanSpeak(r, p, left) ==
    /\ left > 0
    /\ r.n < Len(Phrases[p])

\* KaldiRecognizer.AcceptWaveform(data): extends the utterance; the return
\* value tells whether the utterance is complete.
AcceptWaveform(r, f) ==
    [complete |-> f.end,
     rec      |-> IF HasWord(f) THEN [p |-> f.p, n |-> r.n + 1] ELSE r]

\* ---- TextTyper helpers ----------------------------------------------------
Del(n) == [op |-> "del", n |-> n, text |-> ""]
Ins(t) == [op |-> "ins", n |-> 0, text |-> t]

\* Variant of SendBackspaces that sends one backspace too few.
SendBackspacesOneShort(count) ==
    IF count <= 1 THEN <<>> ELSE <<Del(count - 1)>>

\* Variant of SendBackspaces that sends nothing.
SendBackspacesNone(count) == <<>>

\* TextTyper._send_backspaces(count)
SendBackspaces(count) == IF count <= 0 THEN <<>> ELSE <<Del(count)>>

\* TextTyper._copy_to_clipboard(text) followed by TextTyper._paste()
CopyAndPaste(text) == <<Ins(text)>>

\* What the focused text field does with an instruction: a paste appends the
\* clipboard's text at the cursor, n backspaces remove the n characters
\* before it.
Apply(text, o) ==
    IF o.op = "ins" THEN text \o o.text
    ELSE IF Len(text) > o.n THEN SubSeq(text, 1, Len(text) - o.n) ELSE ""

\* The text a sequence of instructions leaves in a field that was empty.
RECURSIVE Screen(_)
Screen(os) ==
    IF os = <<>> THEN ""
    ELSE Apply(Screen(SubSeq(os, 1, Len(os) - 1)), os[Len(os)])

Partial(t) == [final |-> FALSE, text |-> t]
Final(t)   == [final |-> TRUE, text |-> t]

VARIABLES
    streaming_mode,   \* Config.get_streaming_mode()
    current_keys,     \* SpeechToTextApp.current_keys
    hotkey_pressed,   \* SpeechToTextApp.hotkey_pressed
    started,          \* number of session threads started so far
    is_recording,     \* SpeechRecognizer.is_recording
    stream,           \* SpeechRecognizer.stream: 0 is None, s the stream
                      \* opened by session s
    recognizer,       \* SpeechRecognizer.recognizer (utterance in progress)
    last_partial_len, \* TextTyper._last_partial_len
    speech,           \* the phrase the speaker uses in this run
    words_left,       \* frames carrying speech the microphone will yet deliver
    pc,               \* position of each session thread
    last_partial,     \* stream_and_transcribe's local last_partial
    cb,               \* the event the session's callback was called with
    site,             \* where the callback was called from: "loop", "flush"
    events,           \* events delivered to the callback, per session
    ops,              \* injector instructions issued, per session
    entry,            \* the call of type_incremental in progress: the
                      \* _last_partial_len it read, Len(ops) when it began
    captured,         \* words of the frames the session has read
    result,           \* text returned by record_and_transcribe
    raised,           \* the exceptions raised so far in the session's
                      \* thread, by kind: "open", "read", "injector"
    config_file,      \* what load_config() finds on disk now
    loaded_config,    \* Config._config
    loaded_hotkey     \* Config._hotkey

vars == <<streaming_mode, current_keys, hotkey_pressed, started,
          is_recording, stream, recognizer, last_partial_len, speech,
          words_left, pc,
          last_partial, cb, site, events, ops, entry, captured, result,
          raised, config_file, loaded_config, loaded_hotkey>>

NoEvent == [final |-> FALSE, text |-> ""]

\* Exceptions raised so far, in sessions 1..n.
RECURSIVE Faults(_)
Faults(n) == IF n = 0 THEN 0 ELSE Len(raised[n]) + Faults(n - 1)

\* The environment may make one more call fail (audio.open, stream.read or
\* an injector call).
MayFail == Faults(MaxSessions) < MaxFaults

\* The session's thread gets an exception of this kind.
Raise(s, kind) == raised' = [raised EXCEPT ![s] = Append(@, kind)]

HasRaised(s, kind) == \E i \in 1..Len(raised[s]) : raised[s][i] = kind

\* The state after SpeechToTextApp.__init__ and Config.load(), with the
\* speech the run's audio will carry.
Start(words) ==
    /\ streaming_mode \in BOOLEAN
    /\ current_keys = {}
    /\ hotkey_pressed = FALSE
    /\ started = 0
    /\ is_recording = FALSE
    /\ stream = 0
    /\ recognizer = FreshRecognizer
    /\ last_partial_len = 0
    /\ speech \in PhraseIds
    /\ words_left = words
    /\ pc = [s \in Sessions |-> "idle"]
    /\ last_partial = [s \in Sessions |-> ""]
    /\ cb = [s \in Sessions |-> NoEvent]
    /\ site = [s \in Sessions |-> "loop"]
    /\ events = [s \in Sessions |-> <<>>]
    /\ ops = [s \in Sessions |-> <<>>]
    /\ entry = [s \in Sessions |-> [len |-> 0, mark |-> 0]]
    /\ captured = [s \in Sessions |-> <<>>]
    /\ result = [s \in Sessions |-> ""]
    /\ raised = [s \in Sessions |-> <<>>]

\* load_config(): the configuration found on disk, or None.
NoFile == [exists |-> FALSE, hotkey |-> NoHotkey]
ConfigFile(hc) == [exists |-> TRUE, hotkey |-> hc]

\* Config._hotkey: None, or the set parse_hotkey returned.
NotLoaded == [loaded |-> FALSE, keys |-> {}]
LoadedKeys(keys) == [loaded |-> TRUE, keys |-> keys]

\* What Config.load() stores for the configuration found on disk.
LoadedFrom(file) ==
    LoadedKeys(IF file.exists THEN ParseHotkey(file.hotkey)
               ELSE ParseHotkey(NoHotkey))

\* The state Config.load() (first statement of run) leaves.
Loaded(file) ==
    /\ config_file = file
    /\ loaded_config = file
    /\ loaded_hotkey = LoadedFrom(file)

Init == Start(MaxWords) /\ Loaded(ConfigFile(SessionHotkeyConfig))

\* ---- input thread ---------------------------------------------------------
\* SpeechToTextApp._toggle_recording, as a relation on the state it touches.
StopRecording ==
    /\ is_recording
    /\ is_recording' = FALSE
    /\ UNCHANGED <<started, pc>>

StartThread ==
    /\ ~is_recording
    /\ started < MaxSessions
    /\ started' = started + 1
    /\ pc' = [pc EXCEPT ![started + 1] =
                 IF streaming_mode THEN "s_reset" ELSE "b_open"]
    /\ UNCHANGED is_recording

ToggleRecording == StopRecording \/ StartThread

\* Variant of Fires without the hotkey_pressed latch.
FiresWithoutLatch(keys, pressed) == Hotkey \subseteq keys

\* _on_press, lines 572-573: the combo is held and has not fired yet.
Fires(keys, pressed) == Hotkey \subseteq keys /\ ~pressed

\* SpeechToTextApp._on_press(key)
OnPress(key) ==
    /\ current_keys' = current_keys \cup {key}
    /\ IF Fires(current_keys', hotkey_pressed)
       THEN /\ hotkey_pressed' = TRUE
            /\ ToggleRecording
       ELSE UNCHANGED <<hotkey_pressed, started, is_recording, pc>>
    /\ UNCHANGED <<streaming_mode, stream, recognizer, last_partial_len,
                   speech, words_left, last_partial, cb, site, events, ops, entry,
                   captured, result, raised, config_file, loaded_config,
                   loaded_hotkey>>

\* Variant of OnRelease that leaves hotkey_pressed as it is.
OnReleaseKeepsLatch(key) ==
    /\ current_keys' = current_keys \ {key}
    /\ UNCHANGED <<hotkey_pressed, streaming_mode, started, is_recording,
                   stream, speech, recognizer, last_partial_len, words_left,
                   pc, last_partial, cb, site, events, ops, entry, captured,
                   result, raised, config_file, loaded_config, loaded_hotkey>>

\* SpeechToTextApp._on_release(key)
OnRelease(key) ==
    /\ current_keys' = current_keys \ {key}
    /\ hotkey_pressed' =
           IF ~(Hotkey \subseteq current_keys') THEN FALSE ELSE hotkey_pressed
    /\ UNCHANGED <<streaming_mode, started, is_recording, stream, speech,
                   recognizer, last_partial_len, words_left, pc, last_partial, cb,
                   site, events, ops, entry, captured, result, raised,
                   config_file, loaded_config, loaded_hotkey>>

\* ---- session thread, streaming mode ---------------------------------------
\* Everything a session step leaves alone on the input thread's side.
InputUnchanged == UNCHANGED <<streaming_mode, current_keys, hotkey_pressed,
                              started, speech, config_file, loaded_config,
                              loaded_hotkey>>

\* SpeechToTextApp._stream_and_type, first statement:
\* TextTyper.reset_incremental()
ResetIncremental(s) ==
    /\ pc[s] = "s_reset"
    /\ last_partial_len' = 0
    /\ pc' = [pc EXCEPT ![s] = "s_open"]
    /\ InputUnchanged
    /\ UNCHANGED <<is_recording, stream, recognizer, words_left, last_partial, cb,
                   site, events, ops, entry, captured, result, raised>>

\* stream_and_transcribe: self.stream = self.audio.open(...)
StreamOpen(s) ==
    /\ pc[s] = "s_open"
    /\ stream' = s
    /\ pc' = [pc EXCEPT ![s] = "s_setrec"]
    /\ InputUnchanged
    /\ UNCHANGED <<is_recording, recognizer, last_partial_len, words_left,
                   last_partial, cb, site, events, ops, entry, captured,
                   result, raised>>

\* Variant of StreamOpenFails whose except clause does not return.
StreamOpenFailsGoesOn(s) ==
    /\ pc[s] = "s_open"
    /\ MayFail
    /\ Raise(s, "open")
    /\ pc' = [pc EXCEPT ![s] = "s_setrec"]
    /\ InputUnchanged
    /\ UNCHANGED <<is_recording, stream, recognizer, last_partial_len, words_left,
                   last_partial, cb, site, events, ops, entry, captured,
                   result>>

\* stream_and_transcribe: audio.open raises; notify and return.
StreamOpenFails(s) ==
    /\ pc[s] = "s_open"
    /\ MayFail
    /\ Raise(s, "open")
    /\ pc' = [pc EXCEPT ![s] = "done"]
    /\ InputUnchanged
    /\ UNCHANGED <<is_recording, stream, recognizer, last_partial_len, words_left,
                   last_partial, cb, site, events, ops, entry, captured,
                   result>>

\* stream_and_transcribe: self.is_recording = True; last_partial = ""
StreamSetRecording(s) ==
    /\ pc[s] = "s_setrec"
    /\ is_recording' = TRUE
    /\ last_partial' = [last_partial EXCEPT ![s] = ""]
    /\ pc' = [pc EXCEPT ![s] = "s_check"]
    /\ InputUnchanged
    /\ UNCHANGED <<stream, recognizer, last_partial_len, words_left, cb, site,
                   events, ops, entry, captured, result, raised>>

\* stream_and_transcribe: while self.is_recording
StreamCheck(s) ==
    /\ pc[s] = "s_check"
    /\ pc' = [pc EXCEPT ![s] = IF is_recording THEN "s_read" ELSE "s_flush"]
    /\ InputUnchanged
    /\ UNCHANGED <<is_recording, stream, recognizer, last_partial_len, words_left,
                   last_partial, cb, site, events, ops, entry, captured,
                   result, raised>>

\* callback(text, is_final) = SpeechToTextApp._on_transcription: enters
\* TextTyper.type_incremental with the event.
Callback(s, ev, from) ==
    /\ cb' = [cb EXCEPT ![s] = ev]
    /\ site' = [site EXCEPT ![s] = from]
    /\ events' = [events EXCEPT ![s] = Append(@, ev)]
    /\ pc' = [pc EXCEPT ![s] = "ti_del"]

\* Variant of LoopEvent that does not compare with the last partial.
LoopEventNoSuppress(complete, text, last) ==
    IF text = "" THEN NoEvent
    ELSE IF complete THEN Final(text) ELSE Partial(text)

\* Variant of LoopEvent without the "if text" test of a complete utterance.
LoopEventEmptyFinal(complete, text, last) ==
    IF complete THEN Final(text)
    ELSE IF text # "" /\ text # last THEN Partial(text) ELSE NoEvent

\* The event one loop iteration delivers for the recognizer's answer, or
\* NoEvent when the iteration calls nothing.
LoopEvent(complete, text, last) ==
    IF complete
    THEN IF text # "" THEN Final(text) ELSE NoEvent
    ELSE IF text # "" /\ text # last THEN Partial(text) ELSE NoEvent

\* stream_and_transcribe, one loop iteration: read a frame, feed it to the
\* recognizer, take Result() or PartialResult(), call the callback.
StreamReadFrame(s, f) ==
    /\ pc[s] = "s_read"
    /\ stream # 0
    /\ LET a    == AcceptWaveform(recognizer, f)
           text == Hypothesis(a.rec)
           ev   == LoopEvent(a.complete, text, last_partial[s])
       IN /\ recognizer' = IF a.complete THEN FreshRecognizer ELSE a.rec
          /\ words_left' = IF HasWord(f) THEN words_left - 1 ELSE words_left
          /\ IF ev # NoEvent
             THEN Callback(s, ev, "loop")
             ELSE /\ pc' = [pc EXCEPT ![s] = "s_check"]
                  /\ UNCHANGED <<cb, site, events>>
    /\ InputUnchanged
    /\ UNCHANGED <<is_recording, stream, last_partial_len, last_partial, ops,
                   entry, captured, result, raised>>

\* Every frame the stream can deliver.
Frames ==
    {SilenceFrame, EndFrame}
        \cup {WordFrame(p, end) : p \in PhraseIds, end \in BOOLEAN}

StreamRead(s) ==
    \/ StreamReadFrame(s, SilenceFrame)
    \/ StreamReadFrame(s, EndFrame)
    \/ \E end \in BOOLEAN :
           /\ CanSpeak(recognizer, speech, words_left)
           /\ StreamReadFrame(s, WordFrame(speech, end))

\* stream_and_transcribe: the read raises (device error, or self.stream is
\* None because another thread cleared it); except Exception: break
StreamReadError(s) ==
    /\ pc[s] = "s_read"
    /\ stream = 0 \/ MayFail
    /\ Raise(s, "read")
    /\ pc' = [pc EXCEPT ![s] = "s_flush"]
    /\ InputUnchanged
    /\ UNCHANGED <<is_recording, stream, recognizer, last_partial_len, words_left,
                   last_partial, cb, site, events, ops, entry, captured,
                   result>>

\* TextTyper.type_incremental, lines 322-323: delete the previous partial.
TypeDelete(s) ==
    /\ pc[s] = "ti_del"
    /\ entry' = [entry EXCEPT ![s] = [len |-> last_partial_len,
                                       mark |-> Len(ops[s])]]
    /\ ops' = [ops EXCEPT ![s] =
                  IF last_partial_len > 0
                  THEN @ \o SendBackspaces(last_partial_len) ELSE @]
    /\ pc' = [pc EXCEPT ![s] = "ti_ins"]
    /\ InputUnchanged
    /\ UNCHANGED <<is_recording, stream, recognizer, last_partial_len, words_left,
                   last_partial, cb, site, events, captured, result, raised>>

\* TextTyper.type_incremental, lines 325-329: paste the new text.
TypeInsert(s) ==
    /\ pc[s] = "ti_ins"
    /\ ops' = [ops EXCEPT ![s] =
                  IF cb[s].text # "" THEN @ \o CopyAndPaste(cb[s].text) ELSE @]
    /\ pc' = [pc EXCEPT ![s] = "ti_end"]
    /\ InputUnchanged
    /\ UNCHANGED <<is_recording, stream, recognizer, last_partial_len, words_left,
                   last_partial, cb, site, events, entry, captured, result, raised>>

\* Variant of NextPartialLen that keeps the length after a final text.
NextPartialLenKeep(ev) == Len(ev.text)

\* Variant of NextPartialLen that counts one character too many.
NextPartialLenOneMore(ev) == IF ev.final THEN 0 ELSE Len(ev.text) + 1

\* The value type_incremental leaves in _last_partial_len.
NextPartialLen(ev) == IF ev.final THEN 0 ELSE Len(ev.text)

\* TextTyper.type_incremental, lines 331-340: separator and counter; then
\* the call returns to its caller.
TypeFinish(s) ==
    /\ pc[s] = "ti_end"
    /\ ops' = [ops EXCEPT ![s] =
                  IF cb[s].final THEN @ \o CopyAndPaste(" ") ELSE @]
    /\ last_partial_len' = NextPartialLen(cb[s])
    /\ pc' = [pc EXCEPT ![s] =
                 IF site[s] = "loop" THEN "s_last" ELSE "s_flushed"]
    /\ InputUnchanged
    /\ UNCHANGED <<is_recording, stream, recognizer, words_left, last_partial, cb,
                   site, events, entry, captured, result, raised>>

\* The statement type_incremental is about to run calls the injector
\* (_send_backspaces, _copy_to_clipboard, _paste).
CallsInjector(at, len, ev) ==
    \/ at = "ti_del" /\ len > 0
    \/ at = "ti_ins" /\ ev.text # ""
    \/ at = "ti_end" /\ ev.final

\* Where an exception of the callback takes the session: the loop's
\* "except Exception: break" catches it; nothing catches it in the flush,
\* and it ends stream_and_transcribe and the thread.
AfterCallbackRaises(from) == IF from = "loop" THEN "s_flush" ELSE "dead"

\* TextTyper.type_incremental: the injector call raises (subprocess.Popen or
\* the pynput controller fails) before it has any effect; type_incremental
\* and _on_transcription catch nothing.
TypeRaises(s) ==
    /\ CallsInjector(pc[s], last_partial_len, cb[s])
    /\ MayFail
    /\ Raise(s, "injector")
    /\ pc' = [pc EXCEPT ![s] = AfterCallbackRaises(site[s])]
    /\ InputUnchanged
    /\ UNCHANGED <<is_recording, stream, recognizer, last_partial_len, words_left,
                   last_partial, cb, site, events, ops, entry, captured,
                   result>>

\* Variant of NextLastPartial that remembers the text of a Final as well.
NextLastPartialKeepsText(ev) == ev.text

\* The value the loop stores in last_partial after the callback returned.
NextLastPartial(ev) == IF ev.final THEN "" ELSE ev.text

\* stream_and_transcribe, lines 519 and 526: remember what was delivered.
StreamRemember(s) ==
    /\ pc[s] = "s_last"
    /\ last_partial' = [last_partial EXCEPT ![s] = NextLastPartial(cb[s])]
    /\ pc' = [pc EXCEPT ![s] = "s_check"]
    /\ InputUnchanged
    /\ UNCHANGED <<is_recording, stream, recognizer, last_partial_len, words_left,
                   cb, site, events, ops, entry, captured, result, raised>>

\* Variant of StreamFlush that takes FinalResult() and drops its text.
StreamFlushDropsText(s) ==
    /\ pc[s] = "s_flush"
    /\ recognizer' = FreshRecognizer
    /\ pc' = [pc EXCEPT ![s] = "s_close"]
    /\ InputUnchanged
    /\ UNCHANGED <<is_recording, stream, last_partial_len, words_left,
                   last_partial, cb, site, events, ops, entry, captured,
                   result, raised>>

\* stream_and_transcribe, lines 533-536: FinalResult() after the loop.
StreamFlush(s) ==
    /\ pc[s] = "s_flush"
    /\ LET text == Hypothesis(recognizer)
       IN /\ recognizer' = FreshRecognizer
          /\ IF text # ""
             THEN Callback(s, Final(text), "flush")
             ELSE /\ pc' = [pc EXCEPT ![s] = "s_close"]
                  /\ UNCHANGED <<cb, site, events>>
    /\ InputUnchanged
    /\ UNCHANGED <<is_recording, stream, last_partial_len, words_left,
                   last_partial, ops, entry, captured, result, raised>>

\* stream_and_transcribe, lines 539-541: stop, close and clear self.stream.
\* When another thread has cleared it already, stop_stream() on None raises
\* and the thread ends there.
StreamClose(s) ==
    /\ pc[s] \in {"s_close", "s_flushed"}
    /\ IF stream = 0
       THEN /\ pc' = [pc EXCEPT ![s] = "dead"]
            /\ UNCHANGED stream
       ELSE /\ stream' = 0
            /\ pc' = [pc EXCEPT ![s] = "s_newrec"]
    /\ InputUnchanged
    /\ UNCHANGED <<is_recording, recognizer, last_partial_len, words_left,
                   last_partial, cb, site, events, ops, entry, captured,
                   result, raised>>

\* stream_and_transcribe, line 544: a fresh recognizer; the thread ends.
StreamNewRecognizer(s) ==
    /\ pc[s] = "s_newrec"
    /\ recognizer' = FreshRecognizer
    /\ pc' = [pc EXCEPT ![s] = "done"]
    /\ InputUnchanged
    /\ UNCHANGED <<is_recording, stream, last_partial_len, words_left,
                   last_partial, cb, site, events, ops, entry, captured,
                   result, raised>>

StreamStep(s) ==
    \/ ResetIncremental(s)
    \/ StreamOpen(s)
    \/ StreamOpenFails(s)
    \/ StreamSetRecording(s)
    \/ StreamCheck(s)
    \/ StreamRead(s)
    \/ StreamReadError(s)
    \/ TypeDelete(s)
    \/ TypeInsert(s)
    \/ TypeFinish(s)
    \/ TypeRaises(s)
    \/ StreamRemember(s)
    \/ StreamFlush(s)
    \/ StreamClose(s)
    \/ StreamNewRecognizer(s)

\* ---- session thread, batch mode -------------------------------------------
\* record_and_transcribe: self.stream = self.audio.open(...)
BatchOpen(s) ==
    /\ pc[s] = "b_open"
    /\ stream' = s
    /\ pc' = [pc EXCEPT ![s] = "b_setrec"]
    /\ InputUnchanged
    /\ UNCHANGED <<is_recording, recognizer, last_partial_len, words_left,
                   last_partial, cb, site, events, ops, entry, captured,
                   result, raised>>

\* record_and_transcribe: audio.open raises; notify and return "".
BatchOpenFails(s) ==
    /\ pc[s] = "b_open"
    /\ MayFail
    /\ Raise(s, "open")
    /\ result' = [result EXCEPT ![s] = ""]
    /\ pc' = [pc EXCEPT ![s] = "b_type"]
    /\ InputUnchanged
    /\ UNCHANGED <<is_recording, stream, recognizer, last_partial_len,
                   words_left, last_partial, cb, site, events, ops, entry,
                   captured>>

\* record_and_transcribe: self.is_recording = True
BatchSetRecording(s) ==
    /\ pc[s] = "b_setrec"
    /\ is_recording' = TRUE
    /\ pc' = [pc EXCEPT ![s] = "b_check"]
    /\ InputUnchanged
    /\ UNCHANGED <<stream, recognizer, last_partial_len, words_left,
                   last_partial, cb, site, events, ops, entry, captured,
                   result, raised>>

\* record_and_transcribe: while self.is_recording
BatchCheck(s) ==
    /\ pc[s] = "b_check"
    /\ pc' = [pc EXCEPT ![s] = IF is_recording THEN "b_read" ELSE "b_close"]
    /\ InputUnchanged
    /\ UNCHANGED <<is_recording, stream, recognizer, last_partial_len,
                   words_left, last_partial, cb, site, events, ops, entry,
                   captured, result, raised>>

\* Variant of BatchAccept that starts a new utterance after each complete one.
BatchAcceptPerUtterance(r, f) ==
    IF AcceptWaveform(r, f).complete THEN FreshRecognizer
    ELSE AcceptWaveform(r, f).rec

\* record_and_transcribe, line 462: the frame is fed to the recognizer and
\* the return value dropped; no Result() is taken, so the recognizer keeps
\* decoding the same utterance.
BatchAccept(r, f) == AcceptWaveform(r, f).rec

\* record_and_transcribe, one loop iteration.
BatchReadFrame(s, f) ==
    /\ pc[s] = "b_read"
    /\ stream # 0
    /\ recognizer' = BatchAccept(recognizer, f)
    /\ words_left' = IF HasWord(f) THEN words_left - 1 ELSE words_left
    /\ captured' = [captured EXCEPT ![s] =
                       IF HasWord(f)
                       THEN Append(@, WordOf(recognizer, f)) ELSE @]
    /\ pc' = [pc EXCEPT ![s] = "b_check"]
    /\ InputUnchanged
    /\ UNCHANGED <<is_recording, stream, last_partial_len, last_partial, cb,
                   site, events, ops, entry, result, raised>>

BatchRead(s) ==
    \/ BatchReadFrame(s, SilenceFrame)
    \/ BatchReadFrame(s, EndFrame)
    \/ \E end \in BOOLEAN :
           /\ CanSpeak(recognizer, speech, words_left)
           /\ BatchReadFrame(s, WordFrame(speech, end))

\* record_and_transcribe: the read raises; except Exception: break
BatchReadError(s) ==
    /\ pc[s] = "b_read"
    /\ stream = 0 \/ MayFail
    /\ Raise(s, "read")
    /\ pc' = [pc EXCEPT ![s] = "b_close"]
    /\ InputUnchanged
    /\ UNCHANGED <<is_recording, stream, recognizer, last_partial_len,
                   words_left, last_partial, cb, site, events, ops, entry,
                   captured, result>>

\* record_and_transcribe, lines 468-470: stop, close and clear self.stream;
\* stop_stream() on None raises and the thread ends there.
BatchClose(s) ==
    /\ pc[s] = "b_close"
    /\ IF stream = 0
       THEN /\ pc' = [pc EXCEPT ![s] = "dead"]
            /\ UNCHANGED stream
       ELSE /\ stream' = 0
            /\ pc' = [pc EXCEPT ![s] = "b_final"]
    /\ InputUnchanged
    /\ UNCHANGED <<is_recording, recognizer, last_partial_len, words_left,
                   last_partial, cb, site, events, ops, entry, captured,
                   result, raised>>

\* record_and_transcribe, lines 473-479: FinalResult(), a fresh recognizer,
\* return text.
BatchFinalResult(s) ==
    /\ pc[s] = "b_final"
    /\ result' = [result EXCEPT ![s] = Hypothesis(recognizer)]
    /\ recognizer' = FreshRecognizer
    /\ pc' = [pc EXCEPT ![s] = "b_type"]
    /\ InputUnchanged
    /\ UNCHANGED <<is_recording, stream, last_partial_len, words_left,
                   last_partial, cb, site, events, ops, entry, captured, raised>>

\* Variant of TypeText that commits the text the way type_incremental
\* commits a Final.
TypeTextAsFinal(text) ==
    IF text = "" THEN <<>> ELSE CopyAndPaste(text) \o CopyAndPaste(" ")

\* TextTyper.type_text(text): the instructions it issues.
TypeText(text) == IF text = "" THEN <<>> ELSE CopyAndPaste(text)

\* _record_and_type, lines 622-628: type the text when there is one.
BatchType(s) ==
    /\ pc[s] = "b_type"
    /\ ops' = [ops EXCEPT ![s] = @ \o TypeText(result[s])]
    /\ last_partial_len' = IF result[s] # "" THEN 0 ELSE last_partial_len
    /\ pc' = [pc EXCEPT ![s] = "done"]
    /\ InputUnchanged
    /\ UNCHANGED <<is_recording, stream, recognizer, words_left, last_partial,
                   cb, site, events, entry, captured, result, raised>>

\* _record_and_type: type_text's injector call raises before it has any
\* effect; nothing catches it and the thread ends, record_and_transcribe
\* having returned.
BatchTypeRaises(s) ==
    /\ pc[s] = "b_type"
    /\ TypeText(result[s]) # <<>>
    /\ MayFail
    /\ Raise(s, "injector")
    /\ pc' = [pc EXCEPT ![s] = "b_dead"]
    /\ InputUnchanged
    /\ UNCHANGED <<is_recording, stream, recognizer, last_partial_len,
                   words_left, last_partial, cb, site, events, ops, entry,
                   captured, result>>

BatchStep(s) ==
    \/ BatchOpen(s)
    \/ BatchOpenFails(s)
    \/ BatchSetRecording(s)
    \/ BatchCheck(s)
    \/ BatchRead(s)
    \/ BatchReadError(s)
    \/ BatchClose(s)
    \/ BatchFinalResult(s)
    \/ BatchType(s)
    \/ BatchTypeRaises(s)

SessionStep(s) == StreamStep(s) \/ BatchStep(s)

\* A session thread that has been started and has not ended.  A thread
\* ends by returning ("done") or by an exception nothing catches: inside
\* stream_and_transcribe or record_and_transcribe ("dead"), or in type_text
\* ("b_dead").
Alive(s) == pc[s] \notin {"idle", "done", "dead", "b_dead"}

Next ==
    \/ \E key \in Keys : OnPress(key)
    \/ \E key \in Keys : OnRelease(key)
    \/ \E s \in Sessions : SessionStep(s)

Spec == Init /\ [][Next]_vars

\* Session threads are scheduled fairly (each is a thread of its own).
FairSpec == Spec /\ \A s \in Sessions : WF_vars(SessionStep(s))

\* Runs in which the hotkey starts a session only after the threads of the
\* earlier sessions have ended, and the user touches only the hotkey's keys.
SerialInit == Start(SerialWords) /\ Loaded(ConfigFile(SessionHotkeyConfig))

FaultyNext ==
    /\ Next
    /\ started' # started => \A s \in Sessions : ~Alive(s)
    /\ started' <= SerialSessions
    /\ current_keys' \subseteq Hotkey

FaultySpec == SerialInit /\ [][FaultyNext]_vars

\* The same runs with a reliable injector: audio.open and stream.read may
\* raise, the injector calls do not.
SerialNext ==
    /\ FaultyNext
    /\ \A s \in Sessions : ~HasRaised(s, "injector")'

SerialSpec == SerialInit /\ [][SerialNext]_vars

\* ---- the configuration while the application runs --------------------------
\* The configurations the file can hold.
HotkeyConfigs ==
    {NoHotkey,
     HotkeyConfig(<<"ctrl">>, "space"),
     HotkeyConfig(<<>>, "space"),
     HotkeyConfig(<<"hyper">>, "space"),
     HotkeyConfig(<<"Ctrl", "Shift">>, "A"),
     HotkeyConfig(<<"alt">>, "Enter"),
     HotkeyConfig(<<"super", "meta">>, "F5"),
     HotkeyConfig(<<"ctrl">>, "pause"),
     HotkeyConfig(<<>>, "pause"),
     HotkeyConfig(<<"hyper">>, "pause"),
     HotkeyConfig(<<>>, "f99")}

ConfigFiles == {NoFile} \cup {ConfigFile(hc) : hc \in HotkeyConfigs}

\* Everything but the configuration.
SessionsUnchanged ==
    UNCHANGED <<streaming_mode, current_keys, hotkey_pressed, started,
                is_recording, stream, recognizer, last_partial_len, speech,
                words_left, pc, last_partial, cb, site, events, ops, entry,
                captured, result, raised>>

\* Config.load()
ConfigLoad ==
    /\ loaded_config' = config_file
    /\ loaded_hotkey' = LoadedFrom(config_file)
    /\ UNCHANGED config_file

\* Config.get_hotkey(), called by _on_press and _on_release.
GetHotkey ==
    /\ IF ~loaded_hotkey.loaded
       THEN ConfigLoad
       ELSE UNCHANGED <<config_file, loaded_config, loaded_hotkey>>
    /\ SessionsUnchanged

\* Config.get_streaming_mode(), called by _toggle_recording:
\* "if cls._config is None: cls.load()".
GetStreamingMode ==
    /\ IF ~loaded_config.exists
       THEN ConfigLoad
       ELSE UNCHANGED <<config_file, loaded_config, loaded_hotkey>>
    /\ SessionsUnchanged

\* The user writes, replaces or removes the configuration file.
EditConfigFile(file) ==
    /\ config_file' = file
    /\ UNCHANGED <<loaded_config, loaded_hotkey>>
    /\ SessionsUnchanged

ConfigInit == Start(MaxWords) /\ \E file \in ConfigFiles : Loaded(file)

ConfigNext ==
    \/ GetHotkey
    \/ GetStreamingMode
    \/ \E file \in ConfigFiles : EditConfigFile(file)

ConfigSpec == ConfigInit /\ [][ConfigNext]_vars

\* ---- properties -----------------------------------------------------------
StreamPcs == {"s_reset", "s_open", "s_setrec", "s_check", "s_read", "s_last",
              "s_flush", "s_flushed", "s_close", "s_newrec",
              "ti_del", "ti_ins", "ti_end"}

InCall(s) == pc[s] \in {"ti_del", "ti_ins", "ti_end"}

\* The session is in its pump loop (a callback made from the loop included).
InLoop(s) ==
    \/ pc[s] \in {"s_check", "s_read", "s_last", "b_check", "b_read"}
    \/ InCall(s) /\ site[s] = "loop"

\* The session has left the loop and its final recognition pass is not over.
Flushing(s) ==
    \/ pc[s] \in {"s_flush", "b_close", "b_final"}
    \/ InCall(s) /\ site[s] = "flush"

\* type_incremental has just returned to the session's caller.
Returned(s) == pc[s] \in {"s_last", "s_flushed"}

\* The instructions issued by the session's latest call of type_incremental.
CallOps(s) == SubSeq(ops[s], entry[s].mark + 1, Len(ops[s]))

\* C1: at most one session thread is alive at a time: _toggle_recording never
\* starts a session thread while an earlier one has not terminated.
C1_OneSessionAtATime ==
    \A s, t \in Sessions : (Alive(s) /\ Alive(t)) => s = t

\* _toggle_recording was called in this step.
ToggleCalled == started' # started \/ (is_recording /\ ~is_recording')

\* C2: _toggle_recording is called exactly in the steps in which the held-key
\* set goes from not containing the combo to containing it; a repeated press
\* of a held key or a key outside the combo never calls it.
C2_ToggleOncePerCombo ==
    [][ToggleCalled <=> (~(Hotkey \subseteq current_keys)
                         /\ Hotkey \subseteq current_keys')]_vars

\* The combo has been completed twice, the second time with the outside key
\* held as well.
C2_Witness ==
    /\ hotkey_pressed
    /\ current_keys = Keys
    /\ started = 2

\* C3: a session that is in its pump loop while is_recording is False (a
\* toggle has stopped it) eventually leaves the loop, whatever follows.
C3_StopObserved ==
    \A s \in Sessions : (InLoop(s) /\ ~is_recording) ~> ~InLoop(s)

\* C4: is_recording is False only when no session is in its pump loop or in
\* its final flush: a stop toggle returns the state to Idle only after the
\* session's loop and flush are over.
C4_IdleOnlyAfterFlush ==
    \A s \in Sessions : (InLoop(s) \/ Flushing(s)) => is_recording

\* C5: _last_partial_len is 0 when type_incremental applies the first event
\* of a streaming session.
C5_FirstEventStartsClean ==
    \A s \in Sessions :
        (pc[s] = "ti_del" /\ Len(events[s]) = 1) => last_partial_len = 0

\* C6: when type_incremental returns from a Final event, _last_partial_len is
\* 0 and the call's last two instructions are the insert of the final text
\* and the insert of one space, the only space insert of the call.
C6_FinalCommits ==
    \A s \in Sessions :
        (Returned(s) /\ cb[s].final) =>
            LET c == CallOps(s)
            IN /\ last_partial_len = 0
               /\ Len(c) >= 2
               /\ c[Len(c)] = Ins(" ")
               /\ c[Len(c) - 1] = Ins(cb[s].text)
               /\ Cardinality({i \in 1..Len(c) : c[i] = Ins(" ")}) = 1

\* A Final event has been applied after two Partial events.
C6_Witness ==
    \E s \in Sessions :
        /\ Returned(s) /\ cb[s].final
        /\ Len(events[s]) = 3
        /\ ~events[s][1].final /\ ~events[s][2].final
        /\ entry[s].len > 0

\* What the claim says a Partial(t) call emits when _last_partial_len is n.
PartialOps(n, t) ==
    (IF n > 0 THEN <<Del(n)>> ELSE <<>>) \o (IF t # "" THEN <<Ins(t)>> ELSE <<>>)

\* C7: when type_incremental returns from Partial(t), having read n in
\* _last_partial_len, it has issued a delete of n (when n > 0) then an insert
\* of t, no separator, and _last_partial_len is the length of t; Partial("a")
\* then Partial("ab") makes the second call issue delete 1, insert "ab".
C7_PartialReplaces ==
    \A s \in Sessions :
        (Returned(s) /\ ~cb[s].final) =>
            /\ CallOps(s) = PartialOps(entry[s].len, cb[s].text)
            /\ last_partial_len = Len(cb[s].text)
            /\ (events[s] = <<Partial("a"), Partial("ab")>> =>
                    CallOps(s) = <<Del(1), Ins("ab")>>)

\* Partial("ab") has been applied right after Partial("a").
C7_Witness ==
    \E s \in Sessions :
        /\ Returned(s)
        /\ events[s] = <<Partial("a"), Partial("ab")>>
        /\ ops[s] = <<Ins("a"), Del(1), Ins("ab")>>
        /\ last_partial_len = 2

\* The events are Partials followed by one Final, at least one Partial.
PartialsThenFinal(ev) ==
    /\ Len(ev) >= 2
    /\ ev[Len(ev)].final
    /\ \A i \in 1..(Len(ev) - 1) : ~ev[i].final

\* The injection sequence the claim gives for p1..pn, f: insert p1; delete
\* len(p(i-1)), insert pi; delete len(pn), insert f, insert one space.
RECURSIVE ScenarioOps(_, _)
ScenarioOps(ev, i) ==
    IF i > Len(ev) THEN <<>>
    ELSE (IF i > 1 THEN <<Del(Len(ev[i - 1].text))>> ELSE <<>>)
         \o <<Ins(ev[i].text)>>
         \o (IF ev[i].final THEN <<Ins(" ")>> ELSE <<>>)
         \o ScenarioOps(ev, i + 1)

TurnOnTheLights ==
    <<Partial("turn"), Partial("turn on"), Partial("turn on the"),
      Final("turn on the lights")>>

TurnOnTheLightsOps ==
    <<Ins("turn"), Del(4), Ins("turn on"), Del(7), Ins("turn on the"),
      Del(11), Ins("turn on the lights"), Ins(" ")>>

\* C8: a streaming session whose events are partials p1..pn and then the
\* final f has issued exactly the claim's injection sequence once the final
\* has been applied; for "turn", "turn on", "turn on the" and
\* "turn on the lights" that is the sequence the claim spells out.
C8_ScenarioSequence ==
    \A s \in Sessions :
        (PartialsThenFinal(events[s]) /\ ~InCall(s)) =>
            /\ ops[s] = ScenarioOps(events[s], 1)
            /\ (events[s] = TurnOnTheLights => ops[s] = TurnOnTheLightsOps)

\* The session of the claim's example has ended.
C8_Witness ==
    \E s \in Sessions :
        /\ pc[s] = "done"
        /\ events[s] = TurnOnTheLights
        /\ ops[s] = TurnOnTheLightsOps

\* C9: within a session the callback never gets two consecutive Partial
\* events with the same text.
C9_NoRepeatedPartial ==
    \A s \in Sessions :
        \A i \in 1..(Len(events[s]) - 1) :
            ~(/\ ~events[s][i].final
              /\ ~events[s][i + 1].final
              /\ events[s][i].text = events[s][i + 1].text)

\* Two Partials have been delivered and the session is back at the head of
\* its loop with the hypothesis it delivered last: the frames it reads now
\* repeat that hypothesis.
C9_Witness ==
    \E s \in Sessions :
        /\ pc[s] = "s_read"
        /\ events[s] = <<Partial("turn"), Partial("turn on")>>
        /\ last_partial[s] = "turn on"
        /\ Hypothesis(recognizer) = last_partial[s]

\* The session is in batch mode and between open and the end of its loop.
BatchRecording(s) == pc[s] \in {"b_setrec", "b_check", "b_read"}

\* C10: a batch session delivers no event at all and issues no instruction
\* while it records; once it has ended, the one text it produced is the
\* recognition of all the frames it captured, typed once when non-empty.
C10_BatchOneFinal ==
    \A s \in Sessions :
        /\ ~streaming_mode => events[s] = <<>>
        /\ BatchRecording(s) => ops[s] = <<>>
        /\ (~streaming_mode /\ pc[s] = "done") =>
               /\ result[s] = Concat(captured[s])
               /\ ops[s] = TypeText(result[s])

\* A batch session has captured two frames of speech and has typed their
\* text.
C10_Witness ==
    \E s \in Sessions :
        /\ ~streaming_mode
        /\ pc[s] = "done"
        /\ captured[s] = <<"a", "b">>
        /\ ops[s] = <<Ins("ab")>>

\* No session thread is running.
NoSessionAlive == \A t \in Sessions : ~Alive(t)

\* C11: once the thread of a session whose audio read raised has ended and
\* no other session runs, is_recording is False: the next toggle starts a
\* session.
C11_ReadErrorReturnsToIdle ==
    \A s \in Sessions :
        (HasRaised(s, "read") /\ NoSessionAlive) => ~is_recording

\* An injector call raises in this step, inside a callback made from the
\* session's pump loop.
InjectorRaisesInLoop(s) ==
    /\ InCall(s)
    /\ site[s] = "loop"
    /\ raised'[s] = Append(raised[s], "injector")

\* C12: when an injector call raises inside a callback made from the pump
\* loop, the session stays in its loop: it goes on to the next iteration.
C12_InjectorFailureKeepsRecording ==
    [][\A s \in Sessions : InjectorRaisesInLoop(s) => pc'[s] = "s_check"]_vars

\* The session's thread has ended.
Ended(s) == pc[s] \in {"done", "dead", "b_dead"}

\* C13: a session whose thread has ended has not been cut short inside
\* stream_and_transcribe or record_and_transcribe, and the stream it opened
\* is closed and cleared.
C13_AlwaysFlushesAndReleases ==
    \A s \in Sessions : Ended(s) => (pc[s] # "dead" /\ stream # s)

\* C14: no two session threads are inside type_incremental at the same time.
C14_InjectorSerialized ==
    \A s, t \in Sessions : (InCall(s) /\ InCall(t)) => s = t

\* No session has been started after session s.
Latest(s) == \A t \in Sessions : t > s => pc[t] = "idle"

\* C15: a session whose audio.open raised is over (in batch mode it has at
\* most the empty result left to report): it holds no stream, has read no
\* frame, has delivered no event and issued no instruction, and until a later
\* session is started is_recording is False.
C15_OpenFailureEndsIdle ==
    \A s \in Sessions :
        HasRaised(s, "open") =>
            /\ pc[s] \in {"done", "b_type"}
            /\ stream # s
            /\ captured[s] = <<>> /\ result[s] = ""
            /\ events[s] = <<>> /\ ops[s] = <<>>
            /\ Latest(s) => ~is_recording

\* The thread of a session whose audio.open raised has ended.
C15_Witness ==
    \E s \in Sessions :
        /\ HasRaised(s, "open")
        /\ pc[s] = "done"
        /\ ~is_recording

\* This step is the loop iteration of session s that reads frame f.
ReadsFrame(s, f) ==
    /\ HasWord(f) => (f.p = speech /\ CanSpeak(recognizer, speech, words_left))
    /\ StreamReadFrame(s, f)

\* This step is a loop iteration of session s in which AcceptWaveform
\* returns true.
ReadsCompleteFrame(s) ==
    \E f \in Frames : ReadsFrame(s, f) /\ AcceptWaveform(recognizer, f).complete

\* This step delivers exactly one event to the callback, a Final.
DeliversOneFinal(s) ==
    /\ Len(events'[s]) = Len(events[s]) + 1
    /\ events'[s][Len(events'[s])].final

\* C16 as stated: every loop iteration in which AcceptWaveform returns true
\* delivers exactly one Final event.
C16_CompleteYieldsFinal ==
    [][\A s \in Sessions : ReadsCompleteFrame(s) => DeliversOneFinal(s)]_vars

\* C16 as amended: a loop iteration in which AcceptWaveform returns true
\* delivers exactly one Final event, with the utterance's text, when that
\* text is not empty, and no event when it is empty; the loop delivers a
\* Final in no other iteration; and once a Final delivered from the loop
\* has been applied, _last_partial_len is 0.
C16_NonEmptyCompleteYieldsFinal ==
    [][\A s \in Sessions :
        /\ pc[s] = "s_read" =>
              /\ \A f \in Frames :
                    (AcceptWaveform(recognizer, f).complete /\ ReadsFrame(s, f)) =>
                        LET text == Hypothesis(AcceptWaveform(recognizer, f).rec)
                        IN  events'[s] =
                                IF text # "" THEN Append(events[s], Final(text))
                                ELSE events[s]
              /\ DeliversOneFinal(s) => ReadsCompleteFrame(s)
        /\ (pc[s] = "ti_end" /\ pc'[s] = "s_last" /\ cb[s].final) =>
               last_partial_len' = 0
      ]_vars

\* A Final delivered by the loop after one Partial has been applied and the
\* session is back at the head of its loop.
C16_Witness ==
    \E s \in Sessions :
        /\ pc[s] = "s_check"
        /\ site[s] = "loop"
        /\ events[s] = <<Partial("a"), Final("ab")>>
        /\ last_partial_len = 0

\* C17: when the thread of a streaming session has ended, the last event it
\* delivered (if any) is a Final, so every Partial is followed by a Final,
\* and _last_partial_len is 0 until a later session is started.
C17_TrailingFinal ==
    \A s \in Sessions :
        (streaming_mode /\ pc[s] = "done") =>
            /\ events[s] # <<>> => events[s][Len(events[s])].final
            /\ \A i \in 1..Len(events[s]) :
                  ~events[s][i].final =>
                      \E j \in (i + 1)..Len(events[s]) : events[s][j].final
            /\ Latest(s) => last_partial_len = 0

\* A session stopped in the middle of an utterance has ended: the Final of
\* its last partial came from the pass after the loop.
C17_Witness ==
    \E s \in Sessions :
        /\ pc[s] = "done"
        /\ site[s] = "flush"
        /\ events[s] = <<Partial("turn"), Partial("turn on"), Final("turn on")>>
        /\ last_partial_len = 0

\* The Final texts of the events, each followed by one space.
RECURSIVE Committed(_)
Committed(ev) ==
    IF ev = <<>> THEN ""
    ELSE Committed(SubSeq(ev, 1, Len(ev) - 1))
         \o (IF ev[Len(ev)].final THEN ev[Len(ev)].text \o " " ELSE "")

\* The text of the latest Partial delivered since the last Final.
Pending(ev) ==
    IF ev # <<>> /\ ~ev[Len(ev)].final THEN ev[Len(ev)].text ELSE ""

\* C18: whenever a streaming session is not inside type_incremental, the text
\* its instructions have put on screen is the Final texts so far, each
\* followed by one space, then the latest Partial since the last Final; when
\* its thread has ended the screen holds the Final texts only.
C18_ScreenConverges ==
    \A s \in Sessions :
        (streaming_mode /\ ~InCall(s)) =>
            /\ Screen(ops[s]) = Committed(events[s]) \o Pending(events[s])
            /\ pc[s] = "done" => Screen(ops[s]) = Committed(events[s])

\* A session has ended after two utterances, the first with a partial that
\* its final replaced.
C18_Witness ==
    \E s \in Sessions :
        /\ pc[s] = "done"
        /\ events[s] = <<Partial("a"), Final("ab"), Final("a")>>
        /\ Screen(ops[s]) = "ab a "

\* C19: a batch session never enters type_incremental and issues no
\* backspace; it issues at most one instruction, the insert of the whole
\* text record_and_transcribe returned, and only once its loop is over and
\* its stream closed; a session that has ended with a non-empty text has
\* issued that insert.
C19_BatchBypassesTypist ==
    \A s \in Sessions :
        ~streaming_mode =>
            /\ ~InCall(s) /\ events[s] = <<>>
            /\ \A i \in 1..Len(ops[s]) : ops[s][i].op # "del"
            /\ Len(ops[s]) <= 1
            /\ ops[s] # <<>> =>
                   /\ pc[s] = "done" /\ stream # s
                   /\ ops[s] = <<Ins(result[s])>>
            /\ (pc[s] = "done" /\ result[s] # "") => ops[s] # <<>>

\* A batch session has recorded the four words and inserted them in one
\* instruction.
C19_Witness ==
    \E s \in Sessions :
        /\ ~streaming_mode
        /\ pc[s] = "done"
        /\ ops[s] = <<Ins("turn on the lights")>>
        /\ ~is_recording

\* C20: the loaded combo is never empty, and no step changes it.
C20_HotkeyNonEmptyAndFixed ==
    /\ [](loaded_hotkey.keys # {})
    /\ [][loaded_hotkey' = loaded_hotkey]_vars

\* C21: between handlers (after each _on_press or _on_release has run to its
\* end) hotkey_pressed is True exactly when every key of the combo is in
\* current_keys, whatever keys were pressed and released before.
C21_LatchTracksCombo ==
    hotkey_pressed <=> (Hotkey \subseteq current_keys)

\* The combo has fired twice and one of its keys has been released since,
\* with the key outside the combo still held.
C21_Witness ==
    /\ Hotkey # {}
    /\ started = 2
    /\ current_keys = {"ctrl", "x"}
    /\ ~hotkey_pressed

\* The last event delivered to the session's callback is a Final.
AfterFinal(s) == events[s] # <<>> /\ events[s][Len(events[s])].final

\* C22: once a Final delivered from the loop has been handled, last_partial
\* is "" at the head of the loop, and the first loop iteration after it whose
\* partial hypothesis is not empty delivers that hypothesis as a Partial,
\* whatever the Partials delivered before the Final were.
C22_FinalClearsMemory ==
    /\ [](\A s \in Sessions :
             (pc[s] \in {"s_check", "s_read"} /\ AfterFinal(s)) =>
                 last_partial[s] = "")
    /\ [][\A s \in Sessions :
             (pc[s] = "s_read" /\ AfterFinal(s)) =>
                 \A f \in Frames :
                     LET a    == AcceptWaveform(recognizer, f)
                         text == Hypothesis(a.rec)
                     IN  (~a.complete /\ text # "" /\ ReadsFrame(s, f)) =>
                             events'[s] = Append(events[s], Partial(text))
       ]_vars

\* The Partial delivered after a Final repeats the last Partial delivered
\* before it.
C22_Witness ==
    \E s \in Sessions :
        /\ events[s] = <<Partial("a"), Final("a"), Partial("a")>>
        /\ pc[s] = "s_check"

\* This step of session s is the cleanup of stream_and_transcribe that
\* stops, closes and clears self.stream.
ClosesStream(s) ==
    /\ pc[s] \in {"s_close", "s_flushed"}
    /\ pc'[s] # pc[s]
    /\ stream # 0
    /\ stream' = 0

\* This step of session s replaces self.recognizer at the end of
\* stream_and_transcribe.
ReplacesRecognizer(s) == pc[s] = "s_newrec" /\ pc'[s] = "done"

\* The session is feeding frames to self.recognizer, or has left its loop
\* and not yet taken FinalResult().
Recognizing(t) == InLoop(t) \/ pc[t] = "s_flush"

\* C23: the stream a session closes and clears is the one it opened itself,
\* and a session replaces the recognizer only when no other session has an
\* utterance in progress in it.
C23_CleanupOwnResources ==
    [][\A s \in Sessions :
          /\ ClosesStream(s) => stream = s
          /\ ReplacesRecognizer(s) =>
                 \A t \in Sessions \ {s} : ~Recognizing(t)
      ]_vars

====
